---- MODULE Spec2Model ----
(***************************************************************************)
(* Resumable, sharded batch execution of model_filtering:                   *)
(*   pipeline.py   - DifficultyFilterPipeline: load_checkpoint and          *)
(*                   run_inference (the generation pass of one shard)       *)
(*   run_reward.py - compute_single_reward, score_rank_dir, main            *)
(*                   (the scoring pass)                                     *)
(*                                                                          *)
(* Specifications:                                                          *)
(*   Spec          generation runs of one shard, with crashes and restarts, *)
(*                 starting from an empty shard directory                   *)
(*   SpecResume    generation runs over a directory an earlier run left      *)
(*   SpecCkpt      load_checkpoint applied to an arbitrary shard directory  *)
(*   SpecScore     the scoring pass over one rank directory                 *)
(*   FairSpecScore SpecScore, every step that can be taken is taken         *)
(*   SpecPart      prepare_dataset's DP split, run by every rank             *)
(*   SpecMain      main of the scoring pass: rank directories, Pool shutdown *)
(*   FairSpecMain  SpecMain, main runs and the clock advances                *)
(***************************************************************************)
EXTENDS Integers, Sequences, FiniteSets, TLC

(***************************************************************************)
(* Bounds of the model.                                                     *)
(***************************************************************************)
\* dataset slices of 0..MaxLen samples
MaxLen == 3
\* batch sizes 1..MaxBatchSize
MaxBatchSize == 2
\* an arbitrary shard directory holds at most MaxFiles files
MaxFiles == 3
\* conforming artifact names batch_00000 .. batch_<MaxIdx> in an arbitrary directory
MaxIdx == 2
\* a rank directory under scoring holds 1..MaxSamples samples
MaxSamples == 2
\* every sample has n responses, n in 0..MaxN
MaxN == 2
\* the samples are spread over at most MaxBatchFiles batch files
MaxBatchFiles == 2
\* main uses 1..MaxWorkers workers
MaxWorkers == 2
\* datasets of 0..MaxTotal samples before the DP split
MaxTotal == 6
\* 1..MaxShards data-parallel ranks
MaxShards == 4
\* main finds 0..MaxRankDirs dp* directories
MaxRankDirs == 2

\* args.correct_reward_threshold, its default
Threshold == 1

VARIABLES
    dir,              \* the shard output directory: file name -> content
    dsLen,            \* len(dataset) of the shard's slice
    batchSize,        \* args.batch_size
    unexpanded,       \* dataset positions whose apply_chat_template is False
    pc,               \* where the process is
    force,            \* args.force_regenerate of the current run
    listing,          \* the order glob.glob returned the batch files in
    start_batch_idx,  \* chk["current_batch_idx"]
    global_results,   \* chk["global_results"], updated by run_inference
    it,               \* batches batch_iter has yielded so far
    idx,              \* enumerate's index of the batch being processed
    cur,              \* dataloader position of the batch being processed
    batch_results,    \* process_batch_outputs' result for the current batch
    warned,           \* "Checkpoint index exceeds dataset size" was printed
    everForced,       \* history: some run so far had force_regenerate
    sinceReset,       \* history: the batches written in full since the last run
                      \* with force_regenerate began (since the start before one)
    crashIdx,         \* history: idx of the batch in process at the last crash
    regenerated,      \* history: a batch was generated while its artifact existed
    gensThisRun,      \* history: model.chat calls of the current run
    writesThisRun,    \* history: artifact files opened for writing by the current run
    completeAtStart,  \* history: all artifacts were complete when the run started
    resumedFrom,      \* history: crashIdx of the crash the current run restarted from
    workers,          \* main's workers: 1 runs in process, more than 1 uses a Pool
    recalc,           \* args.recalculate_rewards
    sfiles,           \* the batch files of the rank directory, in sorted order
    spc,              \* where the scoring pass is
    fi,               \* the batch file score_rank_dir is at (1-based)
    tasks,            \* the tasks of the current batch
    lookup,           \* gid -> s_idx
    collected,        \* the tasks whose result the result loop has consumed
    detailed_by_sample, \* s_idx -> the details collected so far
    rank_results,     \* (batch, s_idx) -> sample
    total_responses,  \* the number of tasks submitted so far
    final_results,    \* final_results.json, once written
    total,            \* len(dataset) before the DP split
    dp_size,          \* args.dp_size
    shard,            \* dp_rank -> the range prepare_dataset of that rank selected
    rank_dirs,        \* main: the dp* directories, each the state of its batch files
    debug,            \* args.debug
    mpc,              \* where main is
    rd,               \* the rank directory main's loop is at (1-based)
    bf,               \* the batch file score_rank_dir is at (1-based)
    rewritten,        \* the (rank directory, batch file) pairs written back
    summaries,        \* the rank directories whose final_results.json is written
    failure,          \* the exception that is propagating out of the loop, if any
    reward_pool,      \* the Pool: its state, and whether join() has returned
    alive,            \* the number of pool workers that are alive
    deadline,         \* time.time() has reached the shutdown deadline
    aliveAtCheck      \* history: the workers alive at the test after the wait

genVars == <<dsLen, batchSize, unexpanded, it, idx, cur, batch_results, warned,
             everForced, sinceReset, crashIdx, regenerated, gensThisRun, writesThisRun,
             completeAtStart, resumedFrom>>
ckVars == <<dir, pc, force, listing, start_batch_idx, global_results>>
scoreVars == <<workers, recalc, sfiles, spc, fi, tasks, lookup, collected,
               detailed_by_sample, rank_results, total_responses, final_results>>
partVars == <<total, dp_size, shard>>
mainVars == <<rank_dirs, debug, mpc, rd, bf, rewritten, summaries, failure,
              reward_pool, alive, deadline, aliveAtCheck>>
otherVars == <<partVars, mainVars>>
vars == <<ckVars, genVars, scoreVars, otherVars>>

NoBatch == 0 - 1

(***************************************************************************)
(* Text: a string is a sequence of characters.                              *)
(***************************************************************************)
DigitChars == <<"0", "1", "2", "3", "4", "5", "6", "7", "8", "9">>

IsDigit(c) == \E k \in 1..Len(DigitChars) : DigitChars[k] = c

DigitVal(c) == (CHOOSE k \in 1..Len(DigitChars) : DigitChars[k] = c) - 1

\* position of the first c in s, 0 when there is none
IndexOf(s, c) ==
    IF \E k \in 1..Len(s) : s[k] = c
    THEN CHOOSE k \in 1..Len(s) : s[k] = c /\ \A j \in 1..(k - 1) : s[j] # c
    ELSE 0

\* s.split(sep)[0]
SplitHead(s, sep) ==
    IF IndexOf(s, sep) = 0 THEN s ELSE SubSeq(s, 1, IndexOf(s, sep) - 1)

\* s.split(sep)[1:] joined again: what follows the first sep
SplitRest(s, sep) == SubSeq(s, IndexOf(s, sep) + 1, Len(s))

\* s.split(sep)[1]; IndexError when s holds no sep
SplitSecond(s, sep) ==
    IF IndexOf(s, sep) = 0
    THEN [ok |-> FALSE, val |-> <<>>]
    ELSE [ok |-> TRUE, val |-> SplitHead(SplitRest(s, sep), sep)]

RECURSIVE DigitsValue(_)
DigitsValue(s) ==
    IF s = <<>> THEN 0
    ELSE DigitsValue(SubSeq(s, 1, Len(s) - 1)) * 10 + DigitVal(s[Len(s)])

AllDigits(s) == s # <<>> /\ \A k \in 1..Len(s) : IsDigit(s[k])

\* int(s): an optional sign, then digits; ValueError otherwise
PyInt(s) ==
    IF AllDigits(s) THEN [ok |-> TRUE, val |-> DigitsValue(s)]
    ELSE IF s # <<>> /\ s[1] = "-" /\ AllDigits(Tail(s))
    THEN [ok |-> TRUE, val |-> 0 - DigitsValue(Tail(s))]
    ELSE IF s # <<>> /\ s[1] = "+" /\ AllDigits(Tail(s))
    THEN [ok |-> TRUE, val |-> DigitsValue(Tail(s))]
    ELSE [ok |-> FALSE, val |-> 0]

RECURSIVE Digits(_)
Digits(n) ==
    IF n < 10 THEN <<DigitChars[n + 1]>>
    ELSE Digits(n \div 10) \o <<DigitChars[(n % 10) + 1]>>

RECURSIVE ZeroPad(_, _)
ZeroPad(s, width) == IF Len(s) >= width THEN s ELSE ZeroPad(<<"0">> \o s, width)

\* f"{n:05d}"
Fmt05d(n) ==
    IF n >= 0 THEN ZeroPad(Digits(n), 5)
    ELSE <<"-">> \o ZeroPad(Digits(0 - n), 4)

BatchPrefix == <<"b", "a", "t", "c", "h", "_">>
JsonSuffix == <<".", "j", "s", "o", "n">>

\* f"batch_{idx:05d}.json"
BatchFileName(i) == BatchPrefix \o Fmt05d(i) \o JsonSuffix

\* the pattern batch_*.json of glob.glob
MatchesGlob(name) ==
    /\ Len(name) >= Len(BatchPrefix) + Len(JsonSuffix)
    /\ SubSeq(name, 1, Len(BatchPrefix)) = BatchPrefix
    /\ SubSeq(name, Len(name) - Len(JsonSuffix) + 1, Len(name)) = JsonSuffix

\* int(os.path.basename(batch_file).split("_")[1].split(".")[0])
ParseBatchNum(name) ==
    IF SplitSecond(name, "_").ok
    THEN PyInt(SplitHead(SplitSecond(name, "_").val, "."))
    ELSE [ok |-> FALSE, val |-> 0]

(***************************************************************************)
(* File contents.  json.dump writes an object keyed by the sample index;    *)
(* a file opened for writing and not yet dumped is empty, and any prefix of *)
(* a dump is no JSON document.                                              *)
(***************************************************************************)
Truncated == [kind |-> "truncated", data |-> <<>>]
NotDict == [kind |-> "array", data |-> <<>>]
Obj(samples) == [kind |-> "object", data |-> samples]

\* json.load(f) followed by batch_data.items(): an exception unless the
\* file holds a JSON object
LoadsAsDict(content) == content.kind = "object"

EmptyMap == [k \in {} |-> 0]

WriteFile(d, name, content) ==
    [n \in (DOMAIN d) \cup {name} |-> IF n = name THEN content ELSE d[n]]

Glob(d) == {n \in DOMAIN d : MatchesGlob(n)}

Orderings(S) ==
    {s \in [1..Cardinality(S) -> S] : \A i, j \in 1..Cardinality(S) : s[i] = s[j] => i = j}

(***************************************************************************)
(* load_checkpoint                                                          *)
(***************************************************************************)
\* the loop over batch_files: (batch_num, batch_file) of every name that parses
RECURSIVE FilesWithIdx(_)
FilesWithIdx(files) ==
    IF files = <<>> THEN <<>>
    ELSE LET p == ParseBatchNum(Head(files))
         IN  (IF p.ok THEN <<[num |-> p.val, file |-> Head(files)]>> ELSE <<>>)
             \o FilesWithIdx(Tail(files))

\* x placed behind every entry whose key is not larger: a stable sort's step
InsertByNum(sorted, x) ==
    LET k == Cardinality({j \in 1..Len(sorted) : sorted[j].num <= x.num})
    IN  SubSeq(sorted, 1, k) \o <<x>> \o SubSeq(sorted, k + 1, Len(sorted))

\* the sort left out: the files stay in listing order
SortLeftOut(pairs) == pairs

\* batch_files_with_idx.sort(key=lambda x: x[0])
RECURSIVE SortByNum(_)
SortByNum(pairs) ==
    IF pairs = <<>> THEN <<>>
    ELSE InsertByNum(SortByNum(SubSeq(pairs, 1, Len(pairs) - 1)), pairs[Len(pairs)])

\* global_results[f"{batch_idx}_{i}"] = result, for every item of the file;
\* the key is the pair (batch_idx, i)
MergeBatch(results, num, data) ==
    LET new == {<<num, i>> : i \in 0..(Len(data) - 1)}
    IN  [k \in (DOMAIN results) \cup new |->
            IF k \in new THEN data[k[2] + 1] ELSE results[k]]

\* the loop that loads every listed file; a file that fails to load is skipped
RECURSIVE LoadBatches(_, _, _)
LoadBatches(d, sorted, results) ==
    IF sorted = <<>> THEN results
    ELSE LET f == Head(sorted)
         IN  LoadBatches(d, Tail(sorted),
                 IF LoadsAsDict(d[f.file])
                 THEN MergeBatch(results, f.num, d[f.file].data)
                 ELSE results)

\* a start index that forgets the + 1
StartIndexOffByOne(sorted) ==
    IF sorted # <<>> THEN sorted[Len(sorted)].num ELSE 0

\* a start index that leaves one index out
StartIndexSkipsOne(sorted) ==
    IF sorted # <<>> THEN sorted[Len(sorted)].num + 2 ELSE 0

\* batch_files_with_idx[-1][0] + 1 if batch_files_with_idx else 0
StartIndex(sorted) ==
    IF sorted # <<>> THEN sorted[Len(sorted)].num + 1 ELSE 0

\* a load_checkpoint that does not look at force_regenerate and scans
LoadCheckpointScansAnyway(d, files, forceRegenerate) ==
    LET sorted == SortByNum(FilesWithIdx(CHOOSE o \in Orderings(Glob(d)) : TRUE))
    IN  [current_batch_idx |-> StartIndex(sorted),
         global_results |-> LoadBatches(d, sorted, EmptyMap),
         global_errors |-> EmptyMap]

LoadCheckpoint(d, files, forceRegenerate) ==
    IF forceRegenerate
    THEN [current_batch_idx |-> 0, global_results |-> EmptyMap, global_errors |-> EmptyMap]
    ELSE LET sorted == SortByNum(FilesWithIdx(files))
         IN  [current_batch_idx |-> StartIndex(sorted),
              global_results |-> LoadBatches(d, sorted, EmptyMap),
              global_errors |-> EmptyMap]

(***************************************************************************)
(* The dataset slice and its batches (DataLoader, drop_last off).           *)
(***************************************************************************)
Min(a, b) == IF a < b THEN a ELSE b
Max(a, b) == IF a > b THEN a ELSE b

\* len(dataloader)
NumBatches == (dsLen + batchSize - 1) \div batchSize

\* the dataset positions of the batch at dataloader position b, in order
BatchPositions(b) ==
    [k \in 1..(Min((b + 1) * batchSize, dsLen) - b * batchSize) |-> b * batchSize + k - 1]

\* a skip loop that counts past the end of the dataloader
SkipCountPastEnd(start) == Max(start, 0)

\* how many batches the skip loop consumes: range(start_batch_idx), until StopIteration
SkipCount(start) == Min(Max(start, 0), NumBatches)

\* every batch of the slice has its complete artifact
AllComplete ==
    \A b \in 0..(NumBatches - 1) :
        /\ BatchFileName(b) \in DOMAIN dir
        /\ dir[BatchFileName(b)] = Obj(BatchPositions(b))

(***************************************************************************)
(* run_inference: one generation run of the shard, step by step.  The       *)
(* process can be killed between any two steps; what it holds in memory is  *)
(* lost, the directory stays as it is.                                      *)
(***************************************************************************)
TypeDefaults ==
    /\ force = FALSE
    /\ listing = <<>>
    /\ start_batch_idx = 0
    /\ global_results = EmptyMap
    /\ it = 0
    /\ idx = NoBatch
    /\ cur = NoBatch
    /\ batch_results = <<>>
    /\ warned = FALSE
    /\ everForced = FALSE
    /\ sinceReset = {}
    /\ crashIdx = NoBatch
    /\ regenerated = FALSE
    /\ gensThisRun = 0
    /\ writesThisRun = 0
    /\ completeAtStart = FALSE
    /\ resumedFrom = NoBatch

NoSummary == [written |-> FALSE, results |-> EmptyMap, num_responses |-> 0]

ScoreDefaults ==
    /\ spc = "start"
    /\ fi = 0
    /\ tasks = <<>>
    /\ lookup = EmptyMap
    /\ collected = {}
    /\ detailed_by_sample = EmptyMap
    /\ rank_results = EmptyMap
    /\ total_responses = 0
    /\ final_results = NoSummary

NoScoring ==
    /\ workers = 1
    /\ recalc = FALSE
    /\ sfiles = <<>>
    /\ ScoreDefaults

\* no rank has prepared its dataset
NotPrepared == [start |-> 0 - 1, end |-> 0 - 1]

NoPartition ==
    /\ total = 0
    /\ dp_size = 1
    /\ shard = [r \in {0} |-> NotPrepared]

NoPool == [state |-> "none", joined |-> FALSE]

MainDefaults ==
    /\ mpc = "start"
    /\ rd = 0
    /\ bf = 0
    /\ rewritten = {}
    /\ summaries = {}
    /\ failure = ""
    /\ reward_pool = NoPool
    /\ alive = 0
    /\ deadline = FALSE
    /\ aliveAtCheck = NoBatch

NoMain ==
    /\ rank_dirs = <<>>
    /\ debug = FALSE
    /\ MainDefaults

NoOther == NoPartition /\ NoMain

Init ==
    /\ dir = EmptyMap
    /\ dsLen \in 0..MaxLen
    /\ batchSize \in 1..MaxBatchSize
    /\ unexpanded \in {u \in SUBSET (0..(dsLen - 1)) : Cardinality(u) <= 1}
    /\ pc = "idle"
    /\ TypeDefaults
    /\ NoScoring
    /\ NoOther

\* a new process: load_checkpoint, then the loop that skips the batches
\* the checkpoint counts as done
StartRun(f, files) ==
    /\ pc \in {"idle", "crashed", "failed", "finished"}
    /\ LET chk == LoadCheckpoint(dir, files, f)
       IN  /\ start_batch_idx' = chk.current_batch_idx
           /\ global_results' = chk.global_results
           /\ it' = SkipCount(chk.current_batch_idx)
           /\ warned' = (chk.current_batch_idx > NumBatches)
    /\ force' = f
    /\ listing' = <<>>
    /\ idx' = NoBatch
    /\ cur' = NoBatch
    /\ batch_results' = <<>>
    /\ everForced' = (everForced \/ f)
    /\ sinceReset' = IF f THEN {} ELSE sinceReset
    /\ gensThisRun' = 0
    /\ writesThisRun' = 0
    /\ completeAtStart' = AllComplete
    /\ resumedFrom' = IF pc = "crashed" THEN crashIdx ELSE NoBatch
    /\ pc' = "loop"
    /\ UNCHANGED <<scoreVars, otherVars>>
    /\ UNCHANGED <<dir, dsLen, batchSize, unexpanded, crashIdx, regenerated>>

\* an enumerate that does not count
NextBatchSameIndex ==
    /\ pc = "loop"
    /\ it < NumBatches
    /\ cur' = it
    /\ idx' = start_batch_idx
    /\ it' = it + 1
    /\ pc' = "batch"
    /\ UNCHANGED <<scoreVars, otherVars>>
    /\ UNCHANGED <<dir, dsLen, batchSize, unexpanded, force, listing, start_batch_idx,
                   global_results, batch_results, warned, everForced, sinceReset, crashIdx,
                   regenerated, gensThisRun, writesThisRun, completeAtStart,
                   resumedFrom>>

\* for idx, batch_dict in enumerate(batch_iter, start=start_batch_idx)
NextBatch ==
    /\ pc = "loop"
    /\ it < NumBatches
    /\ cur' = it
    /\ idx' = start_batch_idx + (it - SkipCount(start_batch_idx))
    /\ it' = it + 1
    /\ pc' = "batch"
    /\ UNCHANGED <<scoreVars, otherVars>>
    /\ UNCHANGED <<dir, dsLen, batchSize, unexpanded, force, listing, start_batch_idx,
                   global_results, batch_results, warned, everForced, sinceReset, crashIdx,
                   regenerated, gensThisRun, writesThisRun, completeAtStart,
                   resumedFrom>>

\* the loop is exhausted: "Inference completed", then the process sleeps
Finish ==
    /\ pc = "loop"
    /\ it >= NumBatches
    /\ pc' = "finished"
    /\ UNCHANGED <<scoreVars, otherVars>>
    /\ UNCHANGED <<dir, dsLen, batchSize, unexpanded, force, listing, start_batch_idx,
                   global_results, it, idx, cur, batch_results, warned, everForced, sinceReset,
                   crashIdx, regenerated, gensThisRun, writesThisRun, completeAtStart,
                   resumedFrom>>

\* a sample with apply_chat_template False: RuntimeError, the run ends
RejectBatch ==
    /\ pc = "batch"
    /\ \E k \in 1..Len(BatchPositions(cur)) : BatchPositions(cur)[k] \in unexpanded
    /\ pc' = "failed"
    /\ UNCHANGED <<scoreVars, otherVars>>
    /\ UNCHANGED <<dir, dsLen, batchSize, unexpanded, force, listing, start_batch_idx,
                   global_results, it, idx, cur, batch_results, warned, everForced, sinceReset,
                   crashIdx, regenerated, gensThisRun, writesThisRun, completeAtStart,
                   resumedFrom>>

\* a run_inference that generates without looking at apply_chat_template
GenerateUnchecked ==
    /\ pc = "batch"
    /\ batch_results' = BatchPositions(cur)
    /\ global_results' = MergeBatch(global_results, idx, BatchPositions(cur))
    /\ regenerated' = (regenerated \/ BatchFileName(idx) \in DOMAIN dir)
    /\ gensThisRun' = gensThisRun + 1
    /\ pc' = "open"
    /\ UNCHANGED <<scoreVars, otherVars>>
    /\ UNCHANGED <<dir, dsLen, batchSize, unexpanded, force, listing, start_batch_idx,
                   it, idx, cur, warned, everForced, sinceReset, crashIdx, writesThisRun,
                   completeAtStart, resumedFrom>>

\* model.chat, process_batch_outputs, global_results.update
Generate ==
    /\ pc = "batch"
    /\ \A k \in 1..Len(BatchPositions(cur)) : BatchPositions(cur)[k] \notin unexpanded
    /\ batch_results' = BatchPositions(cur)
    /\ global_results' = MergeBatch(global_results, idx, BatchPositions(cur))
    /\ regenerated' = (regenerated \/ BatchFileName(idx) \in DOMAIN dir)
    /\ gensThisRun' = gensThisRun + 1
    /\ pc' = "open"
    /\ UNCHANGED <<scoreVars, otherVars>>
    /\ UNCHANGED <<dir, dsLen, batchSize, unexpanded, force, listing, start_batch_idx,
                   it, idx, cur, warned, everForced, sinceReset, crashIdx, writesThisRun,
                   completeAtStart, resumedFrom>>

\* open(batch_out, "w"): the file exists now, and is empty
OpenArtifact ==
    /\ pc = "open"
    /\ dir' = WriteFile(dir, BatchFileName(idx), Truncated)
    /\ writesThisRun' = writesThisRun + 1
    /\ sinceReset' = sinceReset \ {idx}
    /\ pc' = "dump"
    /\ UNCHANGED <<scoreVars, otherVars>>
    /\ UNCHANGED <<dsLen, batchSize, unexpanded, force, listing, start_batch_idx,
                   global_results, it, idx, cur, batch_results, warned, everForced,
                   crashIdx, regenerated, gensThisRun, completeAtStart, resumedFrom>>

\* json.dump and the close of the file; then the progress report
DumpArtifact ==
    /\ pc = "dump"
    /\ dir' = WriteFile(dir, BatchFileName(idx), Obj(batch_results))
    /\ sinceReset' = sinceReset \cup {idx}
    /\ pc' = "loop"
    /\ UNCHANGED <<scoreVars, otherVars>>
    /\ UNCHANGED <<dsLen, batchSize, unexpanded, force, listing, start_batch_idx,
                   global_results, it, idx, cur, batch_results, warned, everForced,
                   crashIdx, regenerated, gensThisRun, writesThisRun, completeAtStart,
                   resumedFrom>>

\* the process is killed; crashIdx keeps the batch it was processing
Crash ==
    /\ pc \in {"loop", "batch", "open", "dump"}
    /\ crashIdx' = IF pc = "loop" THEN NoBatch ELSE idx
    /\ pc' = "crashed"
    /\ force' = FALSE
    /\ start_batch_idx' = 0
    /\ global_results' = EmptyMap
    /\ it' = 0
    /\ idx' = NoBatch
    /\ cur' = NoBatch
    /\ batch_results' = <<>>
    /\ warned' = FALSE
    /\ gensThisRun' = 0
    /\ writesThisRun' = 0
    /\ completeAtStart' = FALSE
    /\ resumedFrom' = NoBatch
    /\ UNCHANGED <<scoreVars, otherVars>>
    /\ UNCHANGED <<dir, dsLen, batchSize, unexpanded, listing, everForced, sinceReset, regenerated>>

\* the listings glob.glob may return; with force_regenerate set,
\* load_checkpoint returns before it lists the directory
Listings(f) == IF f THEN {<<>>} ELSE Orderings(Glob(dir))

Next ==
    \/ /\ pc \in {"idle", "crashed", "failed", "finished"}
       /\ \E f \in BOOLEAN : \E files \in Listings(f) : StartRun(f, files)
    \/ NextBatch
    \/ Finish
    \/ RejectBatch
    \/ Generate
    \/ OpenArtifact
    \/ DumpArtifact
    \/ Crash

Spec == Init /\ [][Next]_vars

(***************************************************************************)
(* Generation runs over a shard directory that an earlier run, with         *)
(* batch_size 1 over a slice of any length, has left behind.                *)
(***************************************************************************)
\* the directory after a completed run of k one-sample batches
LeftBehind(k) == [n \in {BatchFileName(i) : i \in 0..(k - 1)} |-> Obj(<<ParseBatchNum(n).val>>)]

InitResume ==
    /\ \E k \in 0..(MaxIdx + 1) : dir = LeftBehind(k)
    /\ dsLen \in 0..MaxLen
    /\ batchSize \in 1..MaxBatchSize
    /\ unexpanded \in {u \in SUBSET (0..(dsLen - 1)) : Cardinality(u) <= 1}
    /\ pc = "idle"
    /\ TypeDefaults
    /\ NoScoring
    /\ NoOther

SpecResume == InitResume /\ [][Next]_vars

(***************************************************************************)
(* load_checkpoint on an arbitrary shard directory.                         *)
(***************************************************************************)
\* names that glob lists although they are no batch_<index> artifact, and
\* the names of other files of the directory
StrayNames ==
    { BatchPrefix \o JsonSuffix,
      BatchPrefix \o <<"x">> \o JsonSuffix,
      BatchPrefix \o <<"1", ".", "b", "a", "k">> \o JsonSuffix,
      <<"f", "i", "n", "a", "l", "_", "r", "e", "s", "u", "l", "t", "s">> \o JsonSuffix }

NameUniverse == {BatchFileName(i) : i \in 0..MaxIdx} \cup StrayNames

ContentUniverse == {Truncated, NotDict, Obj(<<0>>), Obj(<<1, 2>>)}

ArbitraryDirs ==
    UNION {[S -> ContentUniverse] :
              S \in {T \in SUBSET NameUniverse : Cardinality(T) <= MaxFiles}}

InitCkpt ==
    /\ dir \in ArbitraryDirs
    /\ dsLen = 0
    /\ batchSize = 1
    /\ unexpanded = {}
    /\ pc = "idle"
    /\ TypeDefaults
    /\ NoScoring
    /\ NoOther

ResolveCheckpoint(f, files) ==
    /\ pc = "idle"
    /\ LET chk == LoadCheckpoint(dir, files, f)
       IN  /\ start_batch_idx' = chk.current_batch_idx
           /\ global_results' = chk.global_results
    /\ force' = f
    /\ listing' = files
    /\ pc' = "resolved"
    /\ UNCHANGED <<dir, genVars, scoreVars, otherVars>>

NextCkpt ==
    /\ pc = "idle"
    /\ \E f \in BOOLEAN : \E files \in Listings(f) : ResolveCheckpoint(f, files)

SpecCkpt == InitCkpt /\ [][NextCkpt]_vars

(***************************************************************************)
(* The scoring pass: compute_single_reward.                                 *)
(*                                                                          *)
(* A response stands for its text after the "</think>" cut.  What the       *)
(* scoring collaborator does on it:                                         *)
(*   good      returns a score of 1 at once                                 *)
(*   bad       returns a score of 0 at once                                 *)
(*   boom      raises ValueError at once                                    *)
(*   tout      raises a TimeoutError of its own at once                     *)
(*   loop      never returns                                                *)
(*   slow      returns a score of 1 when the task timeout is about to end   *)
(*   slowboom  raises ValueError when the task timeout is about to end      *)
(* A returned score is a bare number or a dict with a "score" field; both   *)
(* leave detailed["score"] at that score.                                   *)
(***************************************************************************)
Collaborator(resp) ==
    CASE resp = "good" -> [does |-> "returns", score |-> 1, exc |-> ""]
      [] resp = "bad" -> [does |-> "returns", score |-> 0, exc |-> ""]
      [] resp = "slow" -> [does |-> "returns", score |-> 1, exc |-> ""]
      [] resp = "boom" -> [does |-> "raises", score |-> 0, exc |-> "ValueError"]
      [] resp = "slowboom" -> [does |-> "raises", score |-> 0, exc |-> "ValueError"]
      [] resp = "tout" -> [does |-> "raises", score |-> 0, exc |-> "TimeoutError"]
      [] resp = "loop" -> [does |-> "hangs", score |-> 0, exc |-> ""]

OffNominal == {"boom", "tout", "loop", "slow", "slowboom"}

\* _TASK_TIMEOUT is not None: the Pool's initializer sets it in the pool's
\* workers; without a Pool the tasks run in main's process, where it stays None
TimeoutArmed(w) == w > 1

\* Where SIGALRM can reach the task: "call" is the try body, "handler" an
\* except block, "finally" the finally block before signal.alarm(0).
AlarmPoints(resp, armed) ==
    IF ~armed
    THEN IF Collaborator(resp).does = "hangs" THEN {} ELSE {"never"}
    ELSE CASE resp = "loop" -> {"call"}
           [] resp = "slow" -> {"never", "call", "finally"}
           [] resp = "slowboom" -> {"never", "call", "handler", "finally"}
           [] OTHER -> {"never"}

TimeoutMarker == "task_timeout"

\* str(e) of the exception the collaborator raises
ErrorText(resp) == Collaborator(resp).exc

\* compute_single_reward(arg_tuple) with the alarm delivered at alarmAt:
\* (gid, detailed), or the TimeoutError leaves the function (escaped).
\* src is the response the detail was computed from.
ComputeSingleReward(task, armed, alarmAt) ==
    LET out == Collaborator(task.resp)
        src == <<task.s, task.r>>
        timedOut == [score |-> 0, error |-> TimeoutMarker, src |-> src]
    IN  IF armed /\ alarmAt = "call"
        THEN [gid |-> task.gid, escaped |-> FALSE, detailed |-> timedOut]
        ELSE IF armed /\ alarmAt \in {"handler", "finally"}
        THEN [gid |-> task.gid, escaped |-> TRUE, detailed |-> timedOut]
        ELSE IF out.does = "returns"
        THEN [gid |-> task.gid, escaped |-> FALSE,
              detailed |-> [score |-> out.score, error |-> "", src |-> src]]
        ELSE IF out.exc = "TimeoutError"
        THEN [gid |-> task.gid, escaped |-> FALSE, detailed |-> timedOut]
        ELSE [gid |-> task.gid, escaped |-> FALSE,
              detailed |-> [score |-> 0, error |-> out.exc, src |-> src]]

(***************************************************************************)
(* The scoring pass: score_rank_dir over the batch files of one rank        *)
(* directory.                                                               *)
(***************************************************************************)
NoRate == <<0, 0>>

FreshSample(resps) ==
    [responses |-> resps, scored |-> FALSE, scores |-> <<>>,
     detailed_scores |-> <<>>, pass_rate |-> NoRate]

\* a sample an earlier pass has scored: every response at 0
PriorSample(resps) ==
    [responses |-> resps, scored |-> TRUE, scores |-> [r \in 1..Len(resps) |-> 0],
     detailed_scores |-> [r \in 1..Len(resps) |-> [score |-> 0, error |-> "", src |-> <<0, 0>>]],
     pass_rate |-> <<0, Len(resps)>>]

\* a test that takes no sample as scored
HasScoresNever(sample) == FALSE

\* sample.get("scores") is truthy
HasScores(sample) == sample.scored /\ sample.scores # <<>>

\* gid += 1, k times
GidStuck(gid, k) == gid

GidAfter(gid, k) == gid + k

\* the inner loop over sample["responses"]: one task per response
SampleTasks(s, resps, gid) ==
    [r \in 1..Len(resps) |-> [gid |-> GidAfter(gid, r - 1), resp |-> resps[r], s |-> s, r |-> r]]

\* the loop over batch.items() that builds tasks
RECURSIVE TasksFrom(_, _, _, _)
TasksFrom(batch, s, gid, recompute) ==
    IF s > Len(batch) THEN <<>>
    ELSE IF ~recompute /\ HasScores(batch[s])
    THEN TasksFrom(batch, s + 1, gid, recompute)
    ELSE SampleTasks(s, batch[s].responses, gid)
         \o TasksFrom(batch, s + 1, GidAfter(gid, Len(batch[s].responses)), recompute)

\* lookup[gid] = s_idx, a later assignment replacing an earlier one
LookupOf(ts) ==
    [g \in {ts[k].gid : k \in 1..Len(ts)} |->
        ts[CHOOSE k \in 1..Len(ts) :
              ts[k].gid = g /\ \A j \in (k + 1)..Len(ts) : ts[j].gid # g].s]

\* the samples the first loop passes through: rank_results[...] = sample
PassThrough(results, b, batch, recompute) ==
    LET new == {<<b, s>> : s \in {x \in 1..Len(batch) : ~recompute /\ HasScores(batch[x])}}
    IN  [k \in (DOMAIN results) \cup new |-> IF k \in new THEN batch[k[2]] ELSE results[k]]

\* the tasks that are running or can start: imap_unordered hands the tasks
\* out in order, one per idle worker; map runs them one after the other
InFlight == {k \in 1..Len(tasks) : k \notin collected /\ k <= Cardinality(collected) + workers}

\* detailed_by_sample.setdefault(s_idx, []).append(detailed)
AppendDetail(dbs, s, d) ==
    [x \in (DOMAIN dbs) \cup {s} |->
        IF x = s THEN (IF s \in DOMAIN dbs THEN Append(dbs[s], d) ELSE <<d>>) ELSE dbs[x]]

\* a count that takes every score as a pass
PassCountAll(scores) == Len(scores)

PassCount(scores) == Cardinality({i \in 1..Len(scores) : scores[i] >= Threshold})

\* sample.update({detailed_scores, scores, pass_rate})
Scored(sample, detailed_list) ==
    LET scores == [i \in 1..Len(detailed_list) |-> detailed_list[i].score]
    IN  [responses |-> sample.responses, scored |-> TRUE, scores |-> scores,
         detailed_scores |-> detailed_list,
         pass_rate |-> IF scores # <<>> THEN <<PassCount(scores), Len(scores)>> ELSE <<0, 1>>]

\* the batch after the loop that writes the scores back
ScoredBatch(batch, dbs) ==
    [s \in 1..Len(batch) |-> IF s \in DOMAIN dbs THEN Scored(batch[s], dbs[s]) ELSE batch[s]]

\* the shard's responses: the first response of a sample is good, the others
\* bad; at most one response of the shard, one of its first sample, is off
\* nominal
Nominal(r) == IF r = 1 THEN "good" ELSE "bad"

Responses(s, n, special) ==
    [r \in 1..n |-> IF special.s = s /\ special.r = r THEN special.resp ELSE Nominal(r)]

NoSpecial == [s |-> 0, r |-> 0, resp |-> "good"]

\* the ways to cut count samples into at most MaxBatchFiles non-empty files:
\* the number of the file each sample is in
Cuts(count) ==
    {c \in [1..count -> 1..MaxBatchFiles] :
        /\ c[1] = 1
        /\ \A s \in 2..count : c[s] = c[s - 1] \/ c[s] = c[s - 1] + 1}

FilesOf(count, n, cut, special, prior) ==
    [b \in 1..cut[count] |->
        LET members == {s \in 1..count : cut[s] = b}
            first == CHOOSE s \in members : \A x \in members : s <= x
        IN  [k \in 1..Cardinality(members) |->
                LET s == first + k - 1
                IN  IF s \in prior /\ n > 0
                    THEN PriorSample(Responses(s, n, special))
                    ELSE FreshSample(Responses(s, n, special))]]

InitScore ==
    /\ workers \in 1..MaxWorkers
    /\ recalc \in BOOLEAN
    /\ \E count \in 1..MaxSamples, n \in 0..MaxN :
         \E cut \in Cuts(count) :
           \E special \in {NoSpecial} \cup
                   [s : {1}, r : 1..n, resp : OffNominal] :
             \E prior \in {{}, {1}, 1..count} :
                sfiles = FilesOf(count, n, cut, special, prior)
    /\ ScoreDefaults
    /\ dir = EmptyMap
    /\ dsLen = 0
    /\ batchSize = 1
    /\ unexpanded = {}
    /\ pc = "idle"
    /\ TypeDefaults
    /\ NoOther

\* the head of the loop over batch_files: load the file, build tasks and lookup
BeginBatch ==
    /\ spc \in {"start", "next"}
    /\ fi < Len(sfiles)
    /\ fi' = fi + 1
    /\ LET batch == sfiles[fi + 1]
           ts == TasksFrom(batch, 1, 0, recalc)
       IN  /\ tasks' = ts
           /\ lookup' = LookupOf(ts)
           /\ rank_results' = PassThrough(rank_results, fi + 1, batch, recalc)
           /\ total_responses' = total_responses + Len(ts)
           /\ spc' = IF ts # <<>> THEN "collect" ELSE "next"
    /\ collected' = {}
    /\ detailed_by_sample' = EmptyMap
    /\ UNCHANGED <<workers, recalc, sfiles, final_results>>
    /\ UNCHANGED <<ckVars, genVars, otherVars>>

\* a task ends and the result loop consumes what it returned
CompleteTask(k, alarmAt) ==
    /\ spc = "collect"
    /\ k \in InFlight
    /\ alarmAt \in AlarmPoints(tasks[k].resp, TimeoutArmed(workers))
    /\ LET res == ComputeSingleReward(tasks[k], TimeoutArmed(workers), alarmAt)
       IN  IF res.escaped
           THEN /\ spc' = "aborted"
                /\ UNCHANGED <<collected, detailed_by_sample>>
           ELSE /\ spc' = spc
                /\ collected' = collected \cup {k}
                /\ detailed_by_sample' =
                       AppendDetail(detailed_by_sample, lookup[res.gid], res.detailed)
    /\ UNCHANGED <<workers, recalc, sfiles, fi, tasks, lookup, rank_results,
                   total_responses, final_results>>
    /\ UNCHANGED <<ckVars, genVars, otherVars>>

\* every result is in: write the scores back and rewrite the batch file
EndBatch ==
    /\ spc = "collect"
    /\ collected = 1..Len(tasks)
    /\ LET batch == ScoredBatch(sfiles[fi], detailed_by_sample)
           new == {<<fi, s>> : s \in DOMAIN detailed_by_sample}
       IN  /\ sfiles' = [sfiles EXCEPT ![fi] = batch]
           /\ rank_results' = [k \in (DOMAIN rank_results) \cup new |->
                                  IF k \in new THEN batch[k[2]] ELSE rank_results[k]]
    /\ spc' = "next"
    /\ UNCHANGED <<workers, recalc, fi, tasks, lookup, collected, detailed_by_sample,
                   total_responses, final_results>>
    /\ UNCHANGED <<ckVars, genVars, otherVars>>

\* final_results.json
WriteSummary ==
    /\ spc = "next"
    /\ fi = Len(sfiles)
    /\ final_results' = [written |-> TRUE, results |-> rank_results,
                         num_responses |-> total_responses]
    /\ spc' = "done"
    /\ UNCHANGED <<workers, recalc, sfiles, fi, tasks, lookup, collected,
                   detailed_by_sample, rank_results, total_responses>>
    /\ UNCHANGED <<ckVars, genVars, otherVars>>

NextScore ==
    \/ BeginBatch
    \/ \E k \in 1..Len(tasks) :
         \E alarmAt \in {"never", "call", "handler", "finally"} : CompleteTask(k, alarmAt)
    \/ EndBatch
    \/ WriteSummary

SpecScore == InitScore /\ [][NextScore]_vars

\* the processes run and the alarm is delivered: a step that stays possible
\* is taken
FairSpecScore == SpecScore /\ WF_vars(NextScore)

(***************************************************************************)
(* prepare_dataset: the DP split, one process per rank.                     *)
(***************************************************************************)
\* a split that gives the last rank its per_rank items only
ShardRangeNoRemainder(T, S, r) ==
    IF S > 1
    THEN [start |-> r * (T \div S), end |-> r * (T \div S) + (T \div S)]
    ELSE [start |-> 0, end |-> T]

\* the range(start, end) the rank selects; the whole dataset when dp_size <= 1
ShardRange(T, S, r) ==
    IF S > 1
    THEN LET per_rank == T \div S
             start == r * per_rank
         IN  [start |-> start, end |-> IF r # S - 1 THEN start + per_rank ELSE T]
    ELSE [start |-> 0, end |-> T]

InitPart ==
    /\ total \in 0..MaxTotal
    /\ dp_size \in 1..MaxShards
    /\ shard = [r \in 0..(dp_size - 1) |-> NotPrepared]
    /\ dir = EmptyMap
    /\ dsLen = 0
    /\ batchSize = 1
    /\ unexpanded = {}
    /\ pc = "idle"
    /\ TypeDefaults
    /\ NoScoring
    /\ NoMain

\* the process of rank r runs prepare_dataset
PrepareDataset(r) ==
    /\ shard[r] = NotPrepared
    /\ shard' = [shard EXCEPT ![r] = ShardRange(total, dp_size, r)]
    /\ UNCHANGED <<total, dp_size>>
    /\ UNCHANGED <<ckVars, genVars, scoreVars, mainVars>>

NextPart == \E r \in 0..(dp_size - 1) : PrepareDataset(r)

SpecPart == InitPart /\ [][NextPart]_vars

(***************************************************************************)
(* main of the scoring pass: the loop over the rank directories, each batch *)
(* file scored in one step, and the shutdown of the Pool.  A batch file is  *)
(* "ok" (json.load returns the batch) or "corrupt" (json.load raises).      *)
(***************************************************************************)
FileKinds == {"ok", "corrupt"}

\* the sequences over S of length 0..n
SeqsUpTo(S, n) == UNION {[1..k -> S] : k \in 0..n}

\* batch_files of score_rank_dir: the sorted glob, or batch_00000.json alone
\* in debug mode, whether the file exists or not
BatchFilesOf(files, dbg) ==
    IF dbg
    THEN IF files = <<>> THEN <<"missing">> ELSE <<files[1]>>
    ELSE files

\* what open and json.load raise on the file
LoadError(kind) ==
    CASE kind = "corrupt" -> "JSONDecodeError"
      [] kind = "missing" -> "FileNotFoundError"
      [] OTHER -> ""

InitMain ==
    /\ rank_dirs \in SeqsUpTo(SeqsUpTo(FileKinds, MaxBatchFiles), MaxRankDirs)
    /\ debug \in BOOLEAN
    /\ workers \in 1..MaxWorkers
    /\ MainDefaults
    /\ recalc = FALSE
    /\ sfiles = <<>>
    /\ ScoreDefaults
    /\ NoPartition
    /\ dir = EmptyMap
    /\ dsLen = 0
    /\ batchSize = 1
    /\ unexpanded = {}
    /\ pc = "idle"
    /\ TypeDefaults

mainFrame == <<ckVars, genVars, scoreVars, partVars, rank_dirs, debug>>

\* no dp* directory: main returns; otherwise the Pool is made when workers > 1
MakePool ==
    /\ mpc = "start"
    /\ IF rank_dirs = <<>>
       THEN mpc' = "exit" /\ UNCHANGED <<reward_pool, alive>>
       ELSE /\ mpc' = "loop"
            /\ reward_pool' = IF workers > 1 THEN [state |-> "run", joined |-> FALSE] ELSE NoPool
            /\ alive' = IF workers > 1 THEN workers ELSE 0
    /\ UNCHANGED <<rd, bf, rewritten, summaries, failure, deadline, aliveAtCheck>>
    /\ UNCHANGED mainFrame

\* for rd in rank_dirs: score_rank_dir starts; without batch files it warns
\* and returns
EnterRankDir ==
    /\ mpc = "loop"
    /\ rd < Len(rank_dirs)
    /\ rd' = rd + 1
    /\ IF BatchFilesOf(rank_dirs[rd + 1], debug) = <<>>
       THEN mpc' = "loop" /\ bf' = 0
       ELSE mpc' = "file" /\ bf' = 1
    /\ UNCHANGED <<rewritten, summaries, failure, reward_pool, alive, deadline, aliveAtCheck>>
    /\ UNCHANGED mainFrame

\* one turn of the loop over batch_files: load, score, write back; after the
\* last file the summary is written and score_rank_dir returns
ScoreFile ==
    /\ mpc = "file"
    /\ LET batch_files == BatchFilesOf(rank_dirs[rd], debug)
       IN  IF LoadError(batch_files[bf]) # ""
           THEN /\ failure' = LoadError(batch_files[bf])
                /\ mpc' = "finally"
                /\ UNCHANGED <<bf, rewritten, summaries>>
           ELSE /\ rewritten' = rewritten \cup {<<rd, bf>>}
                /\ IF bf < Len(batch_files)
                   THEN bf' = bf + 1 /\ mpc' = "file" /\ UNCHANGED summaries
                   ELSE bf' = bf /\ mpc' = "loop" /\ summaries' = summaries \cup {rd}
                /\ UNCHANGED failure
    /\ UNCHANGED <<rd, reward_pool, alive, deadline, aliveAtCheck>>
    /\ UNCHANGED mainFrame

\* the loop over rank_dirs is exhausted
LeaveLoop ==
    /\ mpc = "loop"
    /\ rd = Len(rank_dirs)
    /\ mpc' = "finally"
    /\ UNCHANGED <<rd, bf, rewritten, summaries, failure, reward_pool, alive, deadline,
                   aliveAtCheck>>
    /\ UNCHANGED mainFrame

\* finally: without a Pool there is nothing to shut down; with one,
\* reward_pool.close() and the deadline is set
ClosePool ==
    /\ mpc = "finally"
    /\ IF reward_pool.state = "none"
       THEN mpc' = "exit" /\ UNCHANGED reward_pool
       ELSE mpc' = "wait" /\ reward_pool' = [reward_pool EXCEPT !.state = "close"]
    /\ deadline' = FALSE
    /\ UNCHANGED <<rd, bf, rewritten, summaries, failure, alive, aliveAtCheck>>
    /\ UNCHANGED mainFrame

\* a worker of the closed Pool has drained its work and exits
WorkerExits ==
    /\ reward_pool.state = "close"
    /\ alive > 0
    /\ alive' = alive - 1
    /\ UNCHANGED <<mpc, rd, bf, rewritten, summaries, failure, reward_pool, deadline,
                   aliveAtCheck>>
    /\ UNCHANGED mainFrame

\* join_timeout seconds have passed since close()
DeadlinePasses ==
    /\ mpc = "wait"
    /\ ~deadline
    /\ deadline' = TRUE
    /\ UNCHANGED <<mpc, rd, bf, rewritten, summaries, failure, reward_pool, alive,
                   aliveAtCheck>>
    /\ UNCHANGED mainFrame

\* the while loop ends: no worker is alive, or the deadline has passed
EndWait ==
    /\ mpc = "wait"
    /\ ~(alive > 0 /\ ~deadline)
    /\ mpc' = "check"
    /\ UNCHANGED <<rd, bf, rewritten, summaries, failure, reward_pool, alive, deadline,
                   aliveAtCheck>>
    /\ UNCHANGED mainFrame

\* a shutdown that never calls terminate()
TerminateNever ==
    /\ mpc = "check"
    /\ aliveAtCheck' = alive
    /\ mpc' = "join"
    /\ UNCHANGED <<reward_pool, alive>>
    /\ UNCHANGED <<rd, bf, rewritten, summaries, failure, deadline>>
    /\ UNCHANGED mainFrame

\* if any(p.is_alive() ...): reward_pool.terminate()
TerminateIfAlive ==
    /\ mpc = "check"
    /\ aliveAtCheck' = alive
    /\ IF alive > 0
       THEN reward_pool' = [reward_pool EXCEPT !.state = "terminate"] /\ alive' = 0
       ELSE UNCHANGED <<reward_pool, alive>>
    /\ mpc' = "join"
    /\ UNCHANGED <<rd, bf, rewritten, summaries, failure, deadline>>
    /\ UNCHANGED mainFrame

\* reward_pool.join() returns once every worker has exited; then main ends,
\* with the exception of the loop if there was one
JoinPool ==
    /\ mpc = "join"
    /\ alive = 0
    /\ reward_pool' = [reward_pool EXCEPT !.joined = TRUE]
    /\ mpc' = "exit"
    /\ UNCHANGED <<rd, bf, rewritten, summaries, failure, alive, deadline, aliveAtCheck>>
    /\ UNCHANGED mainFrame

NextMain ==
    \/ MakePool
    \/ EnterRankDir
    \/ ScoreFile
    \/ LeaveLoop
    \/ ClosePool
    \/ WorkerExits
    \/ DeadlinePasses
    \/ EndWait
    \/ TerminateIfAlive
    \/ JoinPool

SpecMain == InitMain /\ [][NextMain]_vars

\* the steps of main's process and of the clock; a worker is under no
\* obligation to exit
MainSteps ==
    \/ MakePool
    \/ EnterRankDir
    \/ ScoreFile
    \/ LeaveLoop
    \/ ClosePool
    \/ DeadlinePasses
    \/ EndWait
    \/ TerminateIfAlive
    \/ JoinPool

\* main's process runs and the clock advances
FairSpecMain == SpecMain /\ WF_vars(MainSteps)

(***************************************************************************)
(* Claims about the generation pass and the checkpoint.                     *)
(***************************************************************************)
\* the batch files of the directory are exactly the complete artifacts 0..k
HoldsArtifacts(k) ==
    /\ Glob(dir) = {BatchFileName(i) : i \in 0..k}
    /\ \A i \in 0..k : dir[BatchFileName(i)].kind = "object"

RECURSIVE SampleCount(_)
SampleCount(k) ==
    IF k < 0 THEN 0 ELSE Len(dir[BatchFileName(k)].data) + SampleCount(k - 1)

\* the numbers of the listed files whose name parses and whose content loads
LoadableNums ==
    {ParseBatchNum(n).val : n \in {m \in Glob(dir) : ParseBatchNum(m).ok /\ LoadsAsDict(dir[m])}}

HighestPlusOne(S) == IF S = {} THEN 0 ELSE (CHOOSE x \in S : \A y \in S : y <= x) + 1

\* the indices i whose file batch_<i, five digits> is in the directory and loads
ValidArtifacts ==
    {i \in 0..(MaxIdx + 1) : BatchFileName(i) \in DOMAIN dir /\ LoadsAsDict(dir[BatchFileName(i)])}

\* the samples of the valid artifacts, keyed (batch index, sample index)
SamplesOfValidArtifacts ==
    LET keys == UNION {{<<i, j>> : j \in 0..(Len(dir[BatchFileName(i)].data) - 1)} :
                          i \in ValidArtifacts}
    IN  [k \in keys |-> dir[BatchFileName(k[1])].data[k[2] + 1]]

\* C1: a crash while batch i is processed leaves no partial artifact, and the
\* restarted run (no force-regenerate) resumes at batch i, so that batch i is
\* generated again in full.
C1_CrashedBatchIsRedone ==
    ~everForced =>
        /\ pc = "crashed" => \A n \in DOMAIN dir : dir[n].kind = "object"
        /\ resumedFrom # NoBatch => start_batch_idx = resumedFrom

\* C2: without force-regenerate, no batch whose artifact exists is generated
\* again, and a run that completes leaves the artifacts 0..B-1, artifact i
\* holding exactly the samples of dataset positions [i*bs, min((i+1)*bs, len)).
C2_ResumedRunsEndAsOneRun ==
    ~everForced =>
        /\ ~regenerated
        /\ pc = "finished" => AllComplete

\* C3: with the complete artifacts 0..k in the directory, load_checkpoint
\* returns current_batch_idx = k+1 and as many results as the k+1 batches hold
\* samples, whatever the listing order.
C3_ResumeAfterCompletedBatches ==
    (pc = "resolved" /\ ~force) =>
        \A k \in 0..MaxIdx :
            HoldsArtifacts(k) =>
                /\ start_batch_idx = k + 1
                /\ Cardinality(DOMAIN global_results) = SampleCount(k)

\* C3's case: artifacts 0 and 1, listed with 1 first
C3_Witness ==
    /\ pc = "resolved"
    /\ ~force
    /\ HoldsArtifacts(1)
    /\ listing[1] = BatchFileName(1)
    /\ start_batch_idx = 2

\* C4: current_batch_idx is one past the highest index whose file exists and
\* parses (its content included), 0 if there is none; a corrupt file does not
\* count.
C4_NextIndexSkipsCorruptFiles ==
    (pc = "resolved" /\ ~force) => start_batch_idx = HighestPlusOne(LoadableNums)

\* C5: the results are exactly the samples of the valid batch_<index> files,
\* keyed (batch index, sample index); files of another name, and files that
\* fail to load, are skipped.
C5_ResultsAreTheValidArtifacts ==
    (pc = "resolved" /\ ~force) => global_results = SamplesOfValidArtifacts

\* C6: a run without force-regenerate that starts with every batch complete
\* calls the generation engine for no batch and opens no artifact for writing.
C6_CompletedShardRunsNothing ==
    (completeAtStart /\ ~force) => (gensThisRun = 0 /\ writesThisRun = 0 /\ AllComplete)

\* C6's case: a second run over a completed shard of two batches or more has ended
C6_Witness ==
    /\ pc = "finished"
    /\ completeAtStart
    /\ ~force
    /\ NumBatches >= 2

\* the batch at dataloader position b holds a sample that was not
\* template-expanded
UnexpandedInBatch(b) ==
    \E k \in 1..Len(BatchPositions(b)) : BatchPositions(b)[k] \in unexpanded

\* C13: a batch with a sample that was not template-expanded ends the run with
\* a fatal error before the generation call of that batch; the failed run
\* writes nothing more and takes no further step (only a new run follows), so
\* the artifacts of the earlier batches stay as they were.
C13_UnexpandedSampleIsFatal ==
    [][/\ (pc = "batch" /\ UnexpandedInBatch(cur)) =>
              /\ pc' \in {"failed", "crashed"}
              /\ dir' = dir
              /\ gensThisRun' <= gensThisRun
       /\ pc' = "failed" =>
              /\ pc = "batch" /\ UnexpandedInBatch(cur)
              /\ gensThisRun' = gensThisRun
              /\ writesThisRun' = writesThisRun
              /\ global_results' = global_results
       /\ pc = "failed" => (dir' = dir /\ pc' = "loop")]_vars

\* C13's case: the run wrote batch 0 and failed at batch 1
C13_Witness ==
    /\ pc = "failed"
    /\ idx = 1
    /\ UnexpandedInBatch(cur)
    /\ gensThisRun = 1
    /\ writesThisRun = 1
    /\ dir[BatchFileName(0)] = Obj(BatchPositions(0))
    /\ BatchFileName(1) \notin DOMAIN dir

\* C14: when the checkpoint's next batch index is larger than the number of
\* batches, the skip loop stops at the end of the dataloader with a warning,
\* no batch is generated or written, and the run ends without failing.
C14_IndexPastDatasetEndsQuietly ==
    (pc \in {"loop", "batch", "open", "dump", "failed", "finished"}
         /\ start_batch_idx > NumBatches) =>
        /\ warned
        /\ it = NumBatches
        /\ pc \in {"loop", "finished"}
        /\ gensThisRun = 0
        /\ writesThisRun = 0

\* C14's case: three artifacts, a slice of one batch, the run has ended
C14_Witness ==
    /\ pc = "finished"
    /\ start_batch_idx = 3
    /\ NumBatches = 1
    /\ warned
    /\ ~force

\* C15: with force_regenerate set, load_checkpoint lists no file and returns
\* current_batch_idx 0 and empty results, whatever the directory holds.
C15_ForceBypassesScan ==
    (pc = "resolved" /\ force) =>
        /\ start_batch_idx = 0
        /\ global_results = EmptyMap
        /\ listing = <<>>

\* C15's case: the flag is set and the directory holds artifacts 0 and 1
C15_Witness ==
    /\ pc = "resolved"
    /\ force
    /\ HoldsArtifacts(1)
    /\ start_batch_idx = 0

\* C18: the generation call of a batch comes only when every batch the run
\* generated before has its artifact written in full, the one just before it
\* under the previous index; the k-th write of a run goes to index start + k,
\* so the indices written in one run increase strictly.
C18_ArtifactBeforeNextBatch ==
    [][/\ gensThisRun' = gensThisRun + 1 =>
              /\ writesThisRun = gensThisRun
              /\ gensThisRun > 0 =>
                    /\ idx >= 1
                    /\ BatchFileName(idx - 1) \in DOMAIN dir
                    /\ dir[BatchFileName(idx - 1)] = Obj(BatchPositions(cur - 1))
       /\ writesThisRun' = writesThisRun + 1 =>
              /\ idx = start_batch_idx + writesThisRun
              /\ gensThisRun = writesThisRun + 1]_vars

\* C18's case: the second batch of a run has been generated, the artifact of
\* the first is in the directory
C18_Witness ==
    /\ pc = "open"
    /\ gensThisRun = 2
    /\ writesThisRun = 1
    /\ idx >= 1
    /\ dir[BatchFileName(idx - 1)] = Obj(BatchPositions(cur - 1))

\* no file of the directory is a partly written one
NoPartialFile == \A n \in DOMAIN dir : dir[n].kind = "object"

\* C19: after a run with force-regenerate has written batches 0..j, a run
\* without the flag resumes one past the batches written since that reset and
\* loads results of those batches only (seen as the run starts, no file
\* being partly written).
C19_ForceDiscardsEarlierProgress ==
    (/\ pc \in {"loop", "batch", "failed", "finished"}
     /\ gensThisRun = 0
     /\ ~force
     /\ everForced
     /\ 0 \in sinceReset
     /\ NoPartialFile) =>
        /\ start_batch_idx = HighestPlusOne(sinceReset)
        /\ \A k \in DOMAIN global_results : k[1] \in sinceReset

\* the indices of the artifact files of the directory
ArtifactIndices == {i \in 0..(MaxLen + 2) : BatchFileName(i) \in DOMAIN dir}

\* C22: without force-regenerate, whatever runs, crashes and resumes there
\* were, the files of the directory are the artifacts of a prefix 0..k of the
\* batch indices, and a run resumes past no index that has no artifact.
C22_ArtifactsFormAPrefix ==
    ~everForced =>
        /\ DOMAIN dir = {BatchFileName(i) : i \in ArtifactIndices}
        /\ ArtifactIndices = 0..(Cardinality(ArtifactIndices) - 1)
        /\ pc \in {"loop", "batch", "open", "dump", "failed", "finished"} =>
              \A b \in 0..(start_batch_idx - 1) : b \in ArtifactIndices

\* C22's case: a run that resumed after a crash at batch 1 or later has
\* written a further artifact
C22_Witness ==
    /\ ~everForced
    /\ resumedFrom >= 1
    /\ start_batch_idx >= 1
    /\ writesThisRun >= 1
    /\ pc = "loop"
    /\ Cardinality(ArtifactIndices) >= 3

(***************************************************************************)
(* Claims about the scoring pass.                                           *)
(***************************************************************************)
\* the response of the current batch a detail was computed from
RespOf(src) == sfiles[fi][src[1]].responses[src[2]]

DetailsOf(s) == {detailed_by_sample[s][j] : j \in 1..Len(detailed_by_sample[s])}

AllDetails == UNION {DetailsOf(s) : s \in DOMAIN detailed_by_sample}

\* a task whose collaborator never returns is dispatched and has no result yet
HungTaskPending ==
    /\ spc = "collect"
    /\ \E k \in 1..Len(tasks) : tasks[k].resp = "loop" /\ k \notin collected

\* every task of the batch has yielded its result: the hung one a score of 0
\* with the timeout marker, every other one what its collaborator returned
AllTasksYielded ==
    /\ spc = "collect"
    /\ collected = 1..Len(tasks)
    /\ \A d \in AllDetails :
          IF RespOf(d.src) = "loop"
          THEN d.score = 0 /\ d.error = TimeoutMarker
          ELSE d.score = Collaborator(RespOf(d.src)).score /\ d.error = ""

\* C7: with a task timeout configured, a task whose collaborator never returns
\* yields a score of 0 with the timeout marker and every other task of the batch
\* yields its own result, with a worker pool and in process.
C7_HungTaskTimesOut == HungTaskPending ~> AllTasksYielded

\* some response of the rank directory makes the collaborator raise
SomeTaskRaises ==
    \E b \in 1..Len(sfiles) : \E s \in 1..Len(sfiles[b]) :
        \E r \in 1..Len(sfiles[b][s].responses) :
            Collaborator(sfiles[b][s].responses[r]).does = "raises"

\* C8: a task whose collaborator raises an error yields a score of 0 with the
\* error's text, and the scoring run is not brought down by it.
C8_RaisingTaskIsContained ==
    /\ \A d \in AllDetails :
          Collaborator(RespOf(d.src)).does = "raises" =>
              d.score = 0 /\ d.error = ErrorText(RespOf(d.src))
    /\ SomeTaskRaises => spc # "aborted"

\* C9: task ids are unique within the batch, and at every moment the details
\* collected for a sample are exactly the results of that sample's own
\* responses among the tasks that have ended, each once.
C9_ResultsRoutedToOwner ==
    spc = "collect" =>
        /\ \A i, j \in 1..Len(tasks) : tasks[i].gid = tasks[j].gid => i = j
        /\ \A s \in 1..Len(sfiles[fi]) :
              LET own == {<<tasks[k].s, tasks[k].r>> : k \in {x \in collected : tasks[x].s = s}}
              IN  IF s \in DOMAIN detailed_by_sample
                  THEN /\ {d.src : d \in DetailsOf(s)} = own
                       /\ Len(detailed_by_sample[s]) = Cardinality(own)
                  ELSE own = {}

\* C9's case: two samples, every result in, the results of the second sample
\* consumed before the last result of the first
C9_Witness ==
    /\ spc = "collect"
    /\ workers > 1
    /\ collected = 1..Len(tasks)
    /\ Len(tasks) >= 3
    /\ DOMAIN detailed_by_sample = {1, 2}
    /\ detailed_by_sample[1][1].src = <<1, 2>>

\* the samples this pass has scored
NewlyScored(sample) ==
    /\ sample.scored
    /\ \A i \in 1..Len(sample.detailed_scores) : sample.detailed_scores[i].src # <<0, 0>>

\* C10: after the batch is written back, scores and detailed_scores of a newly
\* scored sample have one entry per response, entry i being the score of
\* response i; with responses scoring 1 and 0 the sample ends with
\* scores = [1, 0] and pass_rate = 1/2.
C10_ScoresFollowResponses ==
    \A b \in 1..Len(sfiles) : \A s \in 1..Len(sfiles[b]) :
        LET sample == sfiles[b][s]
        IN  NewlyScored(sample) =>
                /\ Len(sample.scores) = Len(sample.responses)
                /\ Len(sample.detailed_scores) = Len(sample.responses)
                /\ \A i \in 1..Len(sample.scores) :
                      /\ sample.detailed_scores[i].src[2] = i
                      /\ sample.scores[i] = sample.detailed_scores[i].score
                /\ sample.responses = <<"good", "bad">> =>
                      (sample.scores = <<1, 0>> /\ sample.pass_rate = <<1, 2>>)

\* the sample bears non-empty scores
BearsScores(sample) == sample.scores # <<>>

\* the scores the result loop has collected for sample s of the current batch
CollectedScores(s) ==
    [i \in 1..Len(detailed_by_sample[s]) |-> detailed_by_sample[s][i].score]

\* what a step of the pass does to a sample that bears scores
ScoredSampleStep(b, s) ==
    IF recalc
    THEN \* its tasks are submitted with the batch, and the write-back replaces
         \* its scores by the ones collected
         /\ (fi' = b /\ fi # b) => \E k \in 1..Len(tasks') : tasks'[k].s = s
         /\ (fi = b /\ spc = "collect" /\ spc' = "next") =>
               /\ sfiles'[b][s].scores = CollectedScores(s)
               /\ sfiles'[b][s].detailed_scores = detailed_by_sample[s]
               /\ NewlyScored(sfiles'[b][s])
    ELSE /\ sfiles'[b][s] = sfiles[b][s]
         /\ (fi' = b /\ fi # b) => \A k \in 1..Len(tasks') : tasks'[k].s # s

\* C11: a sample that bears non-empty scores is left as it is, with no task
\* submitted for it, when recompute is off; when recompute is on its tasks are
\* submitted and the write-back overwrites its scores.
C11_ScoredSamplesAndRecompute ==
    [][\A b \in 1..Len(sfiles) : \A s \in 1..Len(sfiles[b]) :
          BearsScores(sfiles[b][s]) => ScoredSampleStep(b, s)]_vars

\* C11's case: the pass has ended with recompute off, and in one batch file
\* the first sample keeps its earlier scores while the second was scored
C11_Witness ==
    /\ spc = "done"
    /\ ~recalc
    /\ Len(sfiles[1]) = 2
    /\ sfiles[1][1] = PriorSample(sfiles[1][1].responses)
    /\ NewlyScored(sfiles[1][2])
    /\ <<1, 1>> \in DOMAIN final_results.results

\* C17: compute_single_reward lets no exception escape, wherever the alarm
\* falls between arming and cancelling it: the result loop of score_rank_dir
\* is never brought down by a task.
C17_NoExceptionEscapesATask == spc # "aborted"

\* how many of the scores reach the threshold
Passes(scores) == Cardinality({i \in DOMAIN scores : scores[i] >= Threshold})

\* C21: the pass_rate written back for a sample this pass has scored is the
\* number of its scores that reach the threshold over the number of its
\* scores; such a sample has at least one score.
C21_PassRateIsShareOfPasses ==
    \A b \in 1..Len(sfiles) : \A s \in 1..Len(sfiles[b]) :
        NewlyScored(sfiles[b][s]) =>
            /\ sfiles[b][s].scores # <<>>
            /\ sfiles[b][s].pass_rate =
                  <<Passes(sfiles[b][s].scores), Len(sfiles[b][s].scores)>>

\* C21's case: the pass has ended and a sample with one passing and one
\* failing response has pass_rate 1/2
C21_Witness ==
    /\ spc = "done"
    /\ \E b \in 1..Len(sfiles) : \E s \in 1..Len(sfiles[b]) :
          /\ NewlyScored(sfiles[b][s])
          /\ Len(sfiles[b][s].scores) = 2
          /\ sfiles[b][s].pass_rate = <<1, 2>>

\* C23: once the summary is written, its results hold an entry for every
\* sample of every batch file, a sample without responses included, and every
\* sample has as many scores as responses.
C23_SummaryHoldsEverySample ==
    final_results.written =>
        \A b \in 1..Len(sfiles) : \A s \in 1..Len(sfiles[b]) :
            /\ <<b, s>> \in DOMAIN final_results.results
            /\ Len(sfiles[b][s].scores) = Len(sfiles[b][s].responses)

(***************************************************************************)
(* Claims about the DP split.                                               *)
(***************************************************************************)
\* the dataset positions of a range(start, end)
Items(rg) == {i \in 0..(total - 1) : rg.start <= i /\ i < rg.end}

Prepared == {r \in DOMAIN shard : shard[r] # NotPrepared}

\* C12: the ranges of the ranks are contiguous, do not overlap and cover
\* [0, T) once all ranks have split; every rank but the last takes T // S
\* items, the last one the remainder too; one rank alone takes [0, T).
C12_ShardsPartitionDataset ==
    /\ \A r \in Prepared :
          /\ 0 <= shard[r].start /\ shard[r].start <= shard[r].end /\ shard[r].end <= total
          /\ r # dp_size - 1 => shard[r].end - shard[r].start = total \div dp_size
          /\ r = dp_size - 1 =>
                shard[r].end - shard[r].start = (total \div dp_size) + (total % dp_size)
          /\ dp_size = 1 => shard[r] = [start |-> 0, end |-> total]
    /\ \A r, q \in Prepared :
          /\ q = r + 1 => shard[q].start = shard[r].end
          /\ q # r => Items(shard[r]) \cap Items(shard[q]) = {}
    /\ Prepared = DOMAIN shard =>
          UNION {Items(shard[r]) : r \in Prepared} = 0..(total - 1)

\* C12's case: every rank of 3 has split a dataset that leaves a remainder
C12_Witness ==
    /\ dp_size = 3
    /\ total = 5
    /\ Prepared = DOMAIN shard
    /\ shard[2] = [start |-> 2, end |-> 5]

(***************************************************************************)
(* Claims about main of the scoring pass.                                   *)
(***************************************************************************)
\* the order of the shutdown: close comes first, the wait ends when no worker
\* is alive or the deadline has passed, terminate() is called exactly when a
\* worker is alive at the test that follows the wait, join comes last and main
\* does not end without it
ShutdownInOrder ==
    /\ mpc \in {"wait", "check", "join"} => reward_pool.state \in {"close", "terminate"}
    /\ mpc = "check" => (alive = 0 \/ deadline)
    /\ mpc = "join" \/ reward_pool.joined =>
          /\ aliveAtCheck # NoBatch
          /\ reward_pool.state = "terminate" <=> aliveAtCheck > 0
    /\ reward_pool.state = "terminate" => aliveAtCheck > 0
    /\ reward_pool.joined => alive = 0
    /\ (mpc = "exit" /\ reward_pool.state # "none") => reward_pool.joined

\* C16: the shutdown of the Pool is close, wait, terminate if a worker is
\* still alive, join, in that order, and join is always reached, whether the
\* scoring loop ended or raised.
C16_PoolShutdownTerminates ==
    /\ []ShutdownInOrder
    /\ (reward_pool.state = "run") ~> reward_pool.joined

\* C16's case: scoring raised, a worker outlived the deadline, the Pool was
\* terminated and joined
C16_Witness ==
    /\ mpc = "exit"
    /\ failure # ""
    /\ deadline
    /\ aliveAtCheck > 0
    /\ reward_pool = [state |-> "terminate", joined |-> TRUE]
\* the batch files score_rank_dir is given for rank directory r
GivenFiles(r) == BatchFilesOf(rank_dirs[r], debug)

\* C20: a batch file that cannot be loaded is skipped: when main ends, no
\* exception has left the loop, every batch file that loads has been written
\* back and every rank directory with batch files has its summary.
C20_BadBatchFileIsSkipped ==
    (mpc = "exit" /\ rank_dirs # <<>>) =>
        /\ failure = ""
        /\ \A r \in 1..Len(rank_dirs) :
              /\ \A b \in 1..Len(GivenFiles(r)) :
                    LoadError(GivenFiles(r)[b]) = "" => <<r, b>> \in rewritten
              /\ GivenFiles(r) # <<>> => r \in summaries

====
